---- MODULE Spec2Model ----
(***************************************************************************)
(* Model of src/analyze/values/stringify.js: the compute/reduce machine of *)
(* stringifyValue with its explicit frame stack, the identity-keyed cache, *)
(* the recursion cutoff, and stringifyStackValues, which maps              *)
(* stringifyValue over the bindings of a StackValues against one cache.    *)
(*                                                                         *)
(* A string is a sequence of tokens; "+" and join are concatenation.       *)
(* A Value instance is a node of the value graph; its identity is its      *)
(* index, which is what the Map<Value, string> cache is keyed by.          *)
(***************************************************************************)
EXTENDS Integers, Sequences, FiniteSets, TLC

VARIABLES
    graph,           \* the value graph: graph[v] is the Value instance v
    blockRecursion,  \* Option<BlockRecursionProps>
    op,              \* "value": stringifyValue(root); "stack": stringifyStackValues(root's stack)
    root,            \* the value argument of the current stringifyValue call
    state,           \* {compute: {value, depth}} or {reduce: {item}}
    frames,          \* the frame stack
    cache,           \* Option<Map<Value, string>>
    pc,              \* position: "map", "loop", "post", "return", "error", "stackReturn"
    result,          \* what the current stringifyValue call returned
    error,           \* the message of the Error thrown
    items,           \* stringifyStackValues: the items mapped so far
    stackResult,     \* what stringifyStackValues returned
    counters,        \* instrumentation of the current stringifyValue call, per instance
    fnTotal,         \* combinator invocations of the finished calls of stringifyStackValues
    cache0,          \* the cache as it was when the current stringifyValue call began
    returned,        \* the strings the earlier stringifyValue calls on the root returned
    steps            \* iterations of the loop taken so far, counted on cyclic graphs

vars == <<graph, blockRecursion, op, root, state, frames, cache, pc, result, error,
          items, stackResult, counters, fnTotal, cache0, returned, steps>>

(***************************************************************************)
(* Bounds of the value graphs and cutoffs that are explored.               *)
(***************************************************************************)
MaxNodes == 4
MaxEdges == 4
MaxCases == 2
MaxBindings == 2
MaxTag == 2
MaxDepth == 2
\* stringifyValue calls made one after another on the same root
MaxCalls == 3
\* graphs with reference cycles: the instances that may have children, and the
\* iterations of the loop a run is followed for
MaxCyclicNodes == 3
MaxSteps == 16

Nodes == 1..MaxNodes
Tags == 1..MaxTag

(***************************************************************************)
(* Value variants.  The five leaf variants carry their toString() text.    *)
(* "OtherValue" is an object that is an instance of none of the eight      *)
(* classes stringifyValue tests for.                                       *)
(***************************************************************************)
LeafKinds == {"AnyValue", "DataValue", "LiteralValue", "ErrorValue", "BuiltinValue"}

Leaf(k, t) ==
    [kind |-> k, text |-> <<t>>, tag |-> 0, prefix |-> "", children |-> <<>>, ids |-> <<>>]

OtherValue ==
    [kind |-> "OtherValue", text |-> <<>>, tag |-> 0, prefix |-> "", children |-> <<>>, ids |-> <<>>]

MaybeErrorValue(v) ==
    [kind |-> "MaybeErrorValue", text |-> <<>>, tag |-> 0, prefix |-> "", children |-> <<v>>, ids |-> <<>>]

\* children = <<condition>> \o cases
BranchedValue(p, cs) ==
    [kind |-> "BranchedValue", text |-> <<>>, tag |-> 0, prefix |-> p, children |-> cs, ids |-> <<>>]

BindingId(i) == "x" \o ToString(i)

\* children[i] is the value and ids[i] the id of stack.values.values[i]
FuncValue(t, vs) ==
    [kind |-> "FuncValue", text |-> <<>>, tag |-> t, prefix |-> "", children |-> vs,
     ids |-> [i \in 1..Len(vs) |-> BindingId(i)]]

(***************************************************************************)
(* The value graphs, one per isomorphism class: node 1 is the root,        *)
(* children have larger indices (acyclic), the nodes reachable from the    *)
(* root are 1..r with the childless ones last, and there are at most       *)
(* MaxEdges child references in all.  The leaf variant of a node goes by   *)
(* its position and its text names the node; the last node may also be a   *)
(* BuiltinValue or an OtherValue.  Nodes beyond r are unused.              *)
(***************************************************************************)
SeqsUpTo(S, lo, hi) == UNION {[1..n -> S] : n \in lo..hi}

LeafAt(i) ==
    CASE i % 4 = 1 -> Leaf("AnyValue", "Any" \o ToString(i))
      [] i % 4 = 2 -> Leaf("DataValue", "Data" \o ToString(i))
      [] i % 4 = 3 -> Leaf("LiteralValue", ToString(i))
      [] i % 4 = 0 -> Leaf("ErrorValue", "Error" \o ToString(i))

Childless(i) ==
    {LeafAt(i)}
    \cup {FuncValue(t, <<>>) : t \in Tags}
    \cup (IF i = MaxNodes THEN {Leaf("BuiltinValue", "Builtin" \o ToString(i)), OtherValue}
          ELSE {})

Composite(i, budget) ==
    LET later == (i + 1)..MaxNodes
        Min(a, b) == IF a < b THEN a ELSE b
    IN  (IF budget >= 1 THEN {MaybeErrorValue(v) : v \in later} ELSE {})
        \cup {BranchedValue("If", cs) : cs \in SeqsUpTo(later, 2, Min(budget, MaxCases + 1))}
        \cup {FuncValue(t, vs) : t \in Tags, vs \in SeqsUpTo(later, 1, Min(budget, MaxBindings))}

Range(s) == {s[i] : i \in DOMAIN s}

RECURSIVE GraphsFrom(_, _, _, _)
GraphsFrom(i, reached, budget, childless) ==
    IF i > MaxNodes THEN {<<>>}
    ELSE IF i \notin reached
         THEN IF reached \cap (i..MaxNodes) # {} THEN {}
              ELSE {<<LeafAt(i)>> \o rest : rest \in GraphsFrom(i + 1, reached, budget, TRUE)}
         ELSE UNION {
                {<<r>> \o rest :
                    rest \in GraphsFrom(i + 1, reached \cup Range(r.children),
                                        budget - Len(r.children), r.children = <<>>)}
                : r \in Childless(i) \cup (IF childless THEN {} ELSE Composite(i, budget))}

Graphs == GraphsFrom(1, {1}, MaxEdges, FALSE)

None == [some |-> FALSE, tag |-> 0, maxDepth |-> 0]

Cutoffs == {None} \cup {[some |-> TRUE, tag |-> 1, maxDepth |-> k] : k \in 0..MaxDepth}

NoCache == [some |-> FALSE, map |-> <<>>]

EmptyCache == [some |-> TRUE, map |-> <<>>]

(***************************************************************************)
(* String helpers.                                                         *)
(***************************************************************************)
RECURSIVE Join(_, _)
Join(strs, sep) ==
    IF Len(strs) = 0 THEN <<>>
    ELSE IF Len(strs) = 1 THEN strs[1]
    ELSE strs[1] \o sep \o Join(Tail(strs), sep)

TagText(t) == <<ToString(t)>>

(***************************************************************************)
(* The machine of one stringifyValue call, as a record, so that a step is  *)
(* a function of (graph, cutoff, machine).                                 *)
(***************************************************************************)
ComputeState(v, d) == [compute |-> [value |-> v, depth |-> d]]

ReduceState(s) == [reduce |-> [item |-> s]]

ZeroCount == [n \in Nodes |-> 0]

\* per instance: compute steps on it, cache hits, cutoff placeholders, frames pushed
\* for it, invocations of its combinator
ZeroCounters ==
    [visits |-> ZeroCount, hits |-> ZeroCount, cuts |-> ZeroCount,
     pushes |-> ZeroCount, fnCalls |-> ZeroCount]

StartCall(v, c) ==
    [root |-> v, state |-> ComputeState(v, 0), frames |-> <<>>, cache |-> c, pc |-> "loop",
     result |-> <<>>, error |-> "", counters |-> ZeroCounters]

\* cache?.get(value)
CacheGet(c, v) ==
    IF c.some /\ v \in DOMAIN c.map
    THEN [defined |-> TRUE, str |-> c.map[v]]
    ELSE [defined |-> FALSE, str |-> <<>>]

\* if (cached): undefined and the empty string are falsy
Truthy(cached) == cached.defined /\ cached.str # <<>>

\* faulty variant: the string is never written to the cache
CacheSetNothing(c, v, s) == c

\* cache.set(owner, s)
CacheSet(c, v, s) ==
    IF c.some THEN [c EXCEPT !.map = (v :> s) @@ c.map] ELSE c

MaybeErrorFn(strs) == <<"(">> \o strs[1] \o <<" | Error)">>

\* faulty variant: the cases joined with "," instead of ", "
BranchedFnComma(val, strs) ==
    <<val.prefix, "(">> \o strs[1] \o <<", ">> \o Join(Tail(strs), <<",">>) \o <<")">>

BranchedFn(val, strs) ==
    <<val.prefix, "(">> \o strs[1] \o <<", ">> \o Join(Tail(strs), <<", ">>) \o <<")">>

FuncFn(val, strs) ==
    LET stackEntries == [i \in 1..Len(strs) |-> <<val.ids[i], ": ">> \o strs[i]]
    IN  <<"Fn">> \o TagText(val.tag) \o <<"[">> \o Join(stackEntries, <<", ">>) \o <<"]">>

\* frame.fn(frame.stringifiedValues): the closure pushed with the frame
FrameFn(val, strs) ==
    CASE val.kind = "MaybeErrorValue" -> MaybeErrorFn(strs)
      [] val.kind = "BranchedValue" -> BranchedFn(val, strs)
      [] val.kind = "FuncValue" -> FuncFn(val, strs)

\* faulty variant: the cutoff is tested before the cache
ComputeBranchCutoffFirst(g, br, m) ==
    LET value == m.state.compute.value
        depth == m.state.compute.depth
        val == g[value]
    IN  IF val.kind = "FuncValue" /\ br.some /\ val.tag = br.tag /\ depth = br.maxDepth
        THEN "cutoff"
        ELSE IF Truthy(CacheGet(m.cache, value)) THEN "cached"
        ELSE IF val.kind \in LeafKinds THEN "leaf"
        ELSE IF val.kind = "MaybeErrorValue" THEN "maybeError"
        ELSE IF val.kind = "BranchedValue" THEN "branched"
        ELSE IF val.kind = "FuncValue"
             THEN IF Len(val.children) = 0 THEN "emptyFunc" ELSE "func"
        ELSE "unhandled"

\* faulty variant: the recursion cutoff is never taken
ComputeBranchNoCutoff(g, br, m) ==
    LET value == m.state.compute.value
        val == g[value]
    IN  IF Truthy(CacheGet(m.cache, value)) THEN "cached"
        ELSE IF val.kind \in LeafKinds THEN "leaf"
        ELSE IF val.kind = "MaybeErrorValue" THEN "maybeError"
        ELSE IF val.kind = "BranchedValue" THEN "branched"
        ELSE IF val.kind = "FuncValue"
             THEN IF Len(val.children) = 0 THEN "emptyFunc" ELSE "func"
        ELSE "unhandled"

\* which branch of the if/else chain of the compute state is taken
ComputeBranch(g, br, m) ==
    LET value == m.state.compute.value
        depth == m.state.compute.depth
        val == g[value]
    IN  IF Truthy(CacheGet(m.cache, value)) THEN "cached"
        ELSE IF val.kind \in LeafKinds THEN "leaf"
        ELSE IF val.kind = "MaybeErrorValue" THEN "maybeError"
        ELSE IF val.kind = "BranchedValue" THEN "branched"
        ELSE IF val.kind = "FuncValue"
             THEN IF br.some /\ val.tag = br.tag /\ depth = br.maxDepth THEN "cutoff"
                  ELSE IF Len(val.children) = 0 THEN "emptyFunc"
                  ELSE "func"
        ELSE "unhandled"

DoCached(g, br, m) ==
    [m EXCEPT !.state = ReduceState(CacheGet(m.cache, m.state.compute.value).str)]

DoLeaf(g, br, m) ==
    [m EXCEPT !.state = ReduceState(g[m.state.compute.value].text)]

\* faulty variant: the frame is pushed twice
PushFrameTwice(m, owner, values) ==
    LET frame == [owner |-> owner, values |-> values, stringifiedValues |-> <<>>]
    IN  [m EXCEPT !.state = [compute |-> values[1]],
                  !.frames = Append(Append(m.frames, frame), frame)]

\* frames.push({owner, values, stringifiedValues: [], fn}) with state = compute(first)
PushFrame(m, owner, values) ==
    [m EXCEPT !.state = [compute |-> values[1]],
              !.frames = Append(m.frames,
                                [owner |-> owner, values |-> values, stringifiedValues |-> <<>>])]

DoMaybeError(g, br, m) ==
    LET value == m.state.compute.value
        depth == m.state.compute.depth
    IN  PushFrame(m, value, <<[value |-> g[value].children[1], depth |-> depth]>>)

DoBranched(g, br, m) ==
    LET value == m.state.compute.value
        depth == m.state.compute.depth
        cs == g[value].children
    IN  PushFrame(m, value, [i \in 1..Len(cs) |-> [value |-> cs[i], depth |-> depth]])

\* faulty variant: the placeholder is written to the cache
DoCutoffCaches(g, br, m) ==
    LET s == <<"Fn">> \o TagText(g[m.state.compute.value].tag)
    IN  [m EXCEPT !.state = ReduceState(s),
                  !.cache = CacheSet(m.cache, m.state.compute.value, s)]

DoCutoff(g, br, m) ==
    [m EXCEPT !.state = ReduceState(<<"Fn">> \o TagText(g[m.state.compute.value].tag))]

DoEmptyFunc(g, br, m) ==
    [m EXCEPT !.state =
        ReduceState(<<"Fn">> \o TagText(g[m.state.compute.value].tag) \o <<"[", "]">>)]

\* faulty variant: the depth grows on entering any closure
NewDepthAnyTag(br, val, depth) ==
    IF br.some THEN depth + 1 ELSE depth

\* faulty variant: the depth never grows
NewDepthSame(br, val, depth) == depth

NewDepth(br, val, depth) ==
    IF br.some /\ val.tag = br.tag THEN depth + 1 ELSE depth

DoFunc(g, br, m) ==
    LET value == m.state.compute.value
        depth == m.state.compute.depth
        vs == g[value].children
        newDepth == NewDepth(br, g[value], depth)
    IN  PushFrame(m, value, [i \in 1..Len(vs) |-> [value |-> vs[i], depth |-> newDepth]])

\* faulty variant: a value of no known variant is rendered instead of thrown on
DoUnhandledSkip(g, br, m) ==
    [m EXCEPT !.state = ReduceState(<<"undefined">>)]

\* faulty variant: a value of no known variant leaves the loop
DoUnhandledBreaks(g, br, m) == [m EXCEPT !.pc = "post"]

DoUnhandled(g, br, m) ==
    [m EXCEPT !.pc = "error", !.error = "unhandled value type"]

\* which branch of the reduce state is taken
ReduceBranch(m) ==
    IF Len(m.frames) = 0 THEN "break"
    ELSE LET frame == m.frames[Len(m.frames)]
         IN  IF Len(frame.stringifiedValues) + 1 = Len(frame.values) THEN "combine"
             ELSE "next"

PopFrames(m) == SubSeq(m.frames, 1, Len(m.frames) - 1)

DoBreak(g, br, m) == [m EXCEPT !.pc = "post"]

\* faulty variant: the last child's string is cached instead of the combined one
DoCombineCachesItem(g, br, m) ==
    LET frame == m.frames[Len(m.frames)]
        strs == Append(frame.stringifiedValues, m.state.reduce.item)
        s == FrameFn(g[frame.owner], strs)
    IN  [m EXCEPT !.frames = PopFrames(m),
                  !.cache = CacheSet(m.cache, frame.owner, m.state.reduce.item),
                  !.state = ReduceState(s)]

DoCombine(g, br, m) ==
    LET frame == m.frames[Len(m.frames)]
        strs == Append(frame.stringifiedValues, m.state.reduce.item)
        s == FrameFn(g[frame.owner], strs)
    IN  [m EXCEPT !.frames = PopFrames(m),
                  !.cache = CacheSet(m.cache, frame.owner, s),
                  !.state = ReduceState(s)]

\* faulty variant: the reduced string is dropped and the same child computed again
DoNextSameChild(g, br, m) ==
    LET frame == m.frames[Len(m.frames)]
    IN  [m EXCEPT !.state = [compute |-> frame.values[Len(frame.stringifiedValues) + 1]]]

\* faulty variant: the reduced string is put in front of the collected ones
DoNextPrepends(g, br, m) ==
    LET frame == m.frames[Len(m.frames)]
        strs == <<m.state.reduce.item>> \o frame.stringifiedValues
    IN  [m EXCEPT !.state = [compute |-> frame.values[Len(strs) + 1]],
                  !.frames = Append(PopFrames(m), [frame EXCEPT !.stringifiedValues = strs])]

DoNext(g, br, m) ==
    LET frame == m.frames[Len(m.frames)]
        strs == Append(frame.stringifiedValues, m.state.reduce.item)
    IN  [m EXCEPT !.state = [compute |-> frame.values[Len(strs) + 1]],
                  !.frames = Append(PopFrames(m), [frame EXCEPT !.stringifiedValues = strs])]

\* after the loop: the guard and the return
DoPostLoop(g, br, m) ==
    IF "reduce" \notin DOMAIN m.state
    THEN [m EXCEPT !.pc = "error", !.error = "unexpected"]
    ELSE [m EXCEPT !.pc = "return", !.result = m.state.reduce.item]

Branch(g, br, m) ==
    IF m.pc = "post" THEN "post"
    ELSE IF m.pc # "loop" THEN "halt"
    ELSE IF "compute" \in DOMAIN m.state THEN ComputeBranch(g, br, m)
    ELSE ReduceBranch(m)

\* the instrumentation: what the step of branch b adds to the counters
Count(m, b) ==
    LET c == m.counters
        v == m.state.compute.value
        c1 == IF m.pc = "loop" /\ "compute" \in DOMAIN m.state
              THEN [c EXCEPT !.visits[v] = @ + 1] ELSE c
    IN  CASE b = "cached" -> [c1 EXCEPT !.hits[v] = @ + 1]
          [] b = "cutoff" -> [c1 EXCEPT !.cuts[v] = @ + 1]
          [] b \in {"maybeError", "branched", "func"} -> [c1 EXCEPT !.pushes[v] = @ + 1]
          [] b = "combine" -> [c1 EXCEPT !.fnCalls[m.frames[Len(m.frames)].owner] = @ + 1]
          [] OTHER -> c1

\* one step of stringifyValue
Step(g, br, m) ==
    LET b == Branch(g, br, m)
        mc == [m EXCEPT !.counters = Count(m, b)]
    IN  CASE b = "cached" -> DoCached(g, br, mc)
          [] b = "leaf" -> DoLeaf(g, br, mc)
          [] b = "maybeError" -> DoMaybeError(g, br, mc)
          [] b = "branched" -> DoBranched(g, br, mc)
          [] b = "cutoff" -> DoCutoff(g, br, mc)
          [] b = "emptyFunc" -> DoEmptyFunc(g, br, mc)
          [] b = "func" -> DoFunc(g, br, mc)
          [] b = "unhandled" -> DoUnhandled(g, br, mc)
          [] b = "break" -> DoBreak(g, br, mc)
          [] b = "combine" -> DoCombine(g, br, mc)
          [] b = "next" -> DoNext(g, br, mc)
          [] b = "post" -> DoPostLoop(g, br, mc)
          [] OTHER -> m

\* stringifyValue(value, blockRecursion, cache) run to its return or throw
RECURSIVE Run(_, _, _)
Run(g, br, m) ==
    IF m.pc \in {"return", "error"} THEN m ELSE Run(g, br, Step(g, br, m))

stringifyValue(g, value, br, c) == Run(g, br, StartCall(value, c))

(***************************************************************************)
(* The state machine.                                                      *)
(***************************************************************************)
M ==
    [root |-> root, state |-> state, frames |-> frames, cache |-> cache, pc |-> pc,
     result |-> result, error |-> error, counters |-> counters]

SetM(m) ==
    /\ root' = m.root
    /\ state' = m.state
    /\ frames' = m.frames
    /\ cache' = m.cache
    /\ pc' = m.pc
    /\ result' = m.result
    /\ error' = m.error
    /\ counters' = m.counters

\* the StackValues that stringifyStackValues is called with: the root closure's stack
Values == graph[1].children

Init ==
    /\ graph \in Graphs
    /\ blockRecursion \in Cutoffs
    /\ cache \in {NoCache, EmptyCache}
    /\ op \in {"value", "stack"}
    /\ op = "stack" => graph[1].kind = "FuncValue"
    /\ root = 1
    /\ state = ComputeState(1, 0)
    /\ frames = <<>>
    /\ pc = IF op = "value" THEN "loop" ELSE "map"
    /\ result = <<>>
    /\ error = ""
    /\ items = <<>>
    /\ stackResult = <<>>
    /\ counters = ZeroCounters
    /\ fnTotal = ZeroCount
    /\ cache0 = cache
    /\ returned = <<>>
    /\ steps = 0

Fixed ==
    UNCHANGED <<graph, blockRecursion, op, items, stackResult, fnTotal, cache0, returned, steps>>

ComputeCached ==
    /\ Branch(graph, blockRecursion, M) = "cached"
    /\ SetM(Step(graph, blockRecursion, M))
    /\ Fixed

ComputeLeaf ==
    /\ Branch(graph, blockRecursion, M) = "leaf"
    /\ SetM(Step(graph, blockRecursion, M))
    /\ Fixed

ComputeMaybeError ==
    /\ Branch(graph, blockRecursion, M) = "maybeError"
    /\ SetM(Step(graph, blockRecursion, M))
    /\ Fixed

ComputeBranched ==
    /\ Branch(graph, blockRecursion, M) = "branched"
    /\ SetM(Step(graph, blockRecursion, M))
    /\ Fixed

ComputeCutoff ==
    /\ Branch(graph, blockRecursion, M) = "cutoff"
    /\ SetM(Step(graph, blockRecursion, M))
    /\ Fixed

ComputeEmptyFunc ==
    /\ Branch(graph, blockRecursion, M) = "emptyFunc"
    /\ SetM(Step(graph, blockRecursion, M))
    /\ Fixed

ComputeFunc ==
    /\ Branch(graph, blockRecursion, M) = "func"
    /\ SetM(Step(graph, blockRecursion, M))
    /\ Fixed

ComputeUnhandled ==
    /\ Branch(graph, blockRecursion, M) = "unhandled"
    /\ SetM(Step(graph, blockRecursion, M))
    /\ Fixed

ReduceBreak ==
    /\ Branch(graph, blockRecursion, M) = "break"
    /\ SetM(Step(graph, blockRecursion, M))
    /\ Fixed

ReduceCombine ==
    /\ Branch(graph, blockRecursion, M) = "combine"
    /\ SetM(Step(graph, blockRecursion, M))
    /\ Fixed

ReduceNext ==
    /\ Branch(graph, blockRecursion, M) = "next"
    /\ SetM(Step(graph, blockRecursion, M))
    /\ Fixed

PostLoop ==
    /\ Branch(graph, blockRecursion, M) = "post"
    /\ SetM(Step(graph, blockRecursion, M))
    /\ Fixed

\* faulty variant: every binding is stringified against a cache of its own
StackCallFreshCache ==
    /\ pc = "map"
    /\ Len(items) < Len(Values)
    /\ SetM(StartCall(Values[Len(items) + 1], [cache EXCEPT !.map = <<>>]))
    /\ cache0' = [cache EXCEPT !.map = <<>>]
    /\ UNCHANGED <<graph, blockRecursion, op, items, stackResult, fnTotal, returned, steps>>

\* values.values.map: the callback calls stringifyValue on the next binding
StackCall ==
    /\ pc = "map"
    /\ Len(items) < Len(Values)
    /\ SetM(StartCall(Values[Len(items) + 1], cache))
    /\ cache0' = cache
    /\ UNCHANGED <<graph, blockRecursion, op, items, stackResult, fnTotal, returned, steps>>

\* faulty variant: the callback returns the item without its id
StackItemNoId ==
    /\ pc = "return"
    /\ op = "stack"
    /\ items' = Append(items, result)
    /\ fnTotal' = [n \in Nodes |-> fnTotal[n] + counters.fnCalls[n]]
    /\ pc' = "map"
    /\ UNCHANGED <<graph, blockRecursion, op, root, state, frames, cache, result, error,
                   stackResult, counters, cache0, returned, steps>>

\* the callback returns `${id}: ${item}`
StackItem ==
    /\ pc = "return"
    /\ op = "stack"
    /\ items' = Append(items, <<graph[1].ids[Len(items) + 1], ": ">> \o result)
    /\ fnTotal' = [n \in Nodes |-> fnTotal[n] + counters.fnCalls[n]]
    /\ pc' = "map"
    /\ UNCHANGED <<graph, blockRecursion, op, root, state, frames, cache, result, error,
                   stackResult, counters, cache0, returned, steps>>

\* return `[${items.join(", ")}]`
StackJoin ==
    /\ pc = "map"
    /\ Len(items) = Len(Values)
    /\ stackResult' = <<"[">> \o Join(items, <<", ">>) \o <<"]">>
    /\ pc' = "stackReturn"
    /\ UNCHANGED <<graph, blockRecursion, op, root, state, frames, cache, result, error,
                   items, counters, fnTotal, cache0, returned, steps>>

Next ==
    \/ ComputeCached
    \/ ComputeLeaf
    \/ ComputeMaybeError
    \/ ComputeBranched
    \/ ComputeCutoff
    \/ ComputeEmptyFunc
    \/ ComputeFunc
    \/ ComputeUnhandled
    \/ ReduceBreak
    \/ ReduceCombine
    \/ ReduceNext
    \/ PostLoop
    \/ StackCall
    \/ StackItem
    \/ StackJoin

Spec == Init /\ [][Next]_vars

(***************************************************************************)
(* Repeated calls: when stringifyValue has returned, the caller calls it   *)
(* again with the same value, cutoff and cache argument.                   *)
(***************************************************************************)
\* faulty variant: the depth of the new call is not reset to 0
CallAgainDeeper ==
    /\ pc = "return"
    /\ op = "value"
    /\ Len(returned) + 1 < MaxCalls
    /\ SetM([StartCall(root, cache) EXCEPT !.state = ComputeState(root, Len(returned) + 1)])
    /\ returned' = Append(returned, result)
    /\ cache0' = cache
    /\ UNCHANGED <<graph, blockRecursion, op, items, stackResult, fnTotal, steps>>

CallAgain ==
    /\ pc = "return"
    /\ op = "value"
    /\ Len(returned) + 1 < MaxCalls
    /\ SetM(StartCall(root, cache))
    /\ returned' = Append(returned, result)
    /\ cache0' = cache
    /\ UNCHANGED <<graph, blockRecursion, op, items, stackResult, fnTotal, steps>>

RepeatNext ==
    \/ Next
    \/ CallAgain

RepeatSpec == Init /\ [][RepeatNext]_vars

(***************************************************************************)
(* Value graphs with reference cycles (self-referential closures): the     *)
(* instances 1..MaxCyclicNodes are leaves, MaybeErrorValues or FuncValues  *)
(* whose children are any instances, themselves included; the other        *)
(* instances are leaves.  Every instance with children is reachable from   *)
(* the root, and some cycle is.  A run on a graph with a cycle that the    *)
(* cutoff does not interrupt is followed for MaxSteps iterations.          *)
(***************************************************************************)
\* the instances of `among` that are children of an instance of `from`
Successors(g, from, among) ==
    {c \in among : \E n \in from : c \in Range(g[n].children)}

\* the instances reachable from `from` through instances of `among`
RECURSIVE ReachThrough(_, _, _)
ReachThrough(g, from, among) ==
    LET more == from \cup Successors(g, from, among)
    IN  IF more = from THEN from ELSE ReachThrough(g, more, among)

\* n lies on a cycle that stays within `among`
OnCycle(g, n, among) ==
    n \in among /\ n \in ReachThrough(g, Successors(g, {n}, among), among)

CyclicNode(i, budget) ==
    LET Min(a, b) == IF a < b THEN a ELSE b
    IN  {LeafAt(i)}
        \cup (IF budget >= 1 THEN {MaybeErrorValue(v) : v \in Nodes} ELSE {})
        \cup {FuncValue(t, vs) : t \in Tags, vs \in SeqsUpTo(Nodes, 1, Min(budget, MaxBindings))}

RECURSIVE CyclicFrom(_, _)
CyclicFrom(i, budget) ==
    IF i > MaxNodes THEN {<<>>}
    ELSE IF i > MaxCyclicNodes THEN {<<LeafAt(i)>> \o rest : rest \in CyclicFrom(i + 1, budget)}
    ELSE UNION {{<<r>> \o rest : rest \in CyclicFrom(i + 1, budget - Len(r.children))}
                : r \in CyclicNode(i, budget)}

CyclicGraphs ==
    {g \in CyclicFrom(1, MaxEdges) :
        /\ \A i \in Nodes : g[i].children # <<>> => i \in ReachThrough(g, {1}, Nodes)
        /\ \E n \in ReachThrough(g, {1}, Nodes) : OnCycle(g, n, Nodes)}

\* the instances reachable from the root that are not FuncValues with the blocked tag
Unblocked ==
    {n \in ReachThrough(graph, {1}, Nodes) :
        ~(/\ blockRecursion.some
          /\ graph[n].kind = "FuncValue"
          /\ graph[n].tag = blockRecursion.tag)}

\* every cycle passes through a FuncValue with the blocked tag
BlockedOnEveryCycle == \A n \in Unblocked : ~OnCycle(graph, n, Unblocked)

CyclicInit ==
    /\ graph \in CyclicGraphs
    /\ blockRecursion \in Cutoffs
    /\ cache \in {NoCache, EmptyCache}
    /\ op = "value"
    /\ root = 1
    /\ state = ComputeState(1, 0)
    /\ frames = <<>>
    /\ pc = "loop"
    /\ result = <<>>
    /\ error = ""
    /\ items = <<>>
    /\ stackResult = <<>>
    /\ counters = ZeroCounters
    /\ fnTotal = ZeroCount
    /\ cache0 = cache
    /\ returned = <<>>
    /\ steps = 0

\* one iteration of the loop, or the code after it
LoopStep ==
    /\ pc \in {"loop", "post"}
    /\ ~BlockedOnEveryCycle => steps < MaxSteps
    /\ SetM(Step(graph, blockRecursion, M))
    /\ steps' = steps + 1
    /\ UNCHANGED <<graph, blockRecursion, op, items, stackResult, fnTotal, cache0, returned>>

CyclicSpec == CyclicInit /\ [][LoopStep]_vars

(***************************************************************************)
(* Definitions the properties are stated with.                             *)
(***************************************************************************)
IsComposite(val) ==
    \/ val.kind \in {"MaybeErrorValue", "BranchedValue"}
    \/ val.kind = "FuncValue" /\ Len(val.children) > 0

\* the instances reachable from v, v included
RECURSIVE Reach(_, _)
Reach(g, v) == {v} \cup UNION {Reach(g, g[v].children[i]) : i \in DOMAIN g[v].children}

\* the number of paths from v to n
RECURSIVE Paths(_, _, _)
RECURSIVE SumPaths(_, _, _, _)
SumPaths(g, cs, i, n) ==
    IF i > Len(cs) THEN 0 ELSE Paths(g, cs[i], n) + SumPaths(g, cs, i + 1, n)

Paths(g, v, n) == IF v = n THEN 1 ELSE SumPaths(g, g[v].children, 1, n)

KnownVariants(g, v) == \A n \in Reach(g, v) : g[n].kind # "OtherValue"

InCall == pc \in {"loop", "post", "return"}

Computing == pc = "loop" /\ "compute" \in DOMAIN state

\* the frames owned by a FuncValue with the blocked tag
BlockedFrames ==
    {i \in DOMAIN frames :
        /\ blockRecursion.some
        /\ graph[frames[i].owner].kind = "FuncValue"
        /\ graph[frames[i].owner].tag = blockRecursion.tag}

\* the recursive reference definition of the string of a value
RECURSIVE S(_, _)
S(g, v) ==
    LET val == g[v]
        sub == [i \in DOMAIN val.children |-> S(g, val.children[i])]
    IN  CASE val.kind \in LeafKinds -> val.text
          [] val.kind = "MaybeErrorValue" -> <<"(">> \o sub[1] \o <<" | Error)">>
          [] val.kind = "BranchedValue" ->
                <<val.prefix, "(">> \o sub[1]
                \o Join([i \in 1..(Len(sub) - 1) |-> <<", ">> \o sub[i + 1]], <<>>)
                \o <<")">>
          [] val.kind = "FuncValue" /\ Len(val.children) = 0 ->
                <<"Fn", ToString(val.tag), "[", "]">>
          [] val.kind = "FuncValue" /\ Len(val.children) > 0 ->
                <<"Fn", ToString(val.tag), "[">>
                \o Join([i \in DOMAIN sub |-> <<val.ids[i], ": ">> \o sub[i]], <<", ">>)
                \o <<"]">>

\* whether str opens no "Fn" + t + "[" inside k or more open "Fn" + t + "[ ... ]"
RECURSIVE NoExpansionFrom(_, _, _, _, _)
NoExpansionFrom(str, i, open, t, k) ==
    IF i > Len(str) THEN TRUE
    ELSE IF str[i] = "["
         THEN LET isT == i >= 3 /\ str[i - 2] = "Fn" /\ str[i - 1] = ToString(t)
                  level == Cardinality({j \in DOMAIN open : open[j]})
              IN  /\ ~(isT /\ level >= k)
                  /\ NoExpansionFrom(str, i + 1, Append(open, isT), t, k)
         ELSE IF str[i] = "]"
              THEN NoExpansionFrom(str, i + 1, SubSeq(open, 1, Len(open) - 1), t, k)
              ELSE NoExpansionFrom(str, i + 1, open, t, k)

NoExpansionAtLevel(str, t, k) == NoExpansionFrom(str, 1, <<>>, t, k)

(***************************************************************************)
(* C1: with no cutoff and no cache, a stringifyValue call that returns,    *)
(* returns the string S(root) of the recursive reference definition, and   *)
(* on a graph of known variants it does not throw.                         *)
(***************************************************************************)
C1_ReturnsReferenceString ==
    (InCall \/ pc = "error") /\ ~blockRecursion.some /\ ~cache.some =>
        /\ pc = "return" => result = S(graph, root)
        /\ pc = "error" => ~KnownVariants(graph, root)

C1_Witness ==
    /\ pc = "return"
    /\ op = "value"
    /\ ~blockRecursion.some
    /\ ~cache.some
    /\ graph[1].kind = "BranchedValue"
    /\ Len(graph[1].children) = 3
    /\ \E n \in Reach(graph, 1) : graph[n].kind = "FuncValue" /\ Len(graph[n].children) > 0
    /\ result = S(graph, 1)

(***************************************************************************)
(* C2: a FuncValue with tag t whose environment transitively contains      *)
(* another FuncValue with tag t, stringified with cutoff (t, k), with or   *)
(* without a cache: the returned string never shows tag t expanded at      *)
(* nesting level k or deeper of expanded tag-t closures.                   *)
(***************************************************************************)
SelfReferential(g, v) ==
    /\ g[v].kind = "FuncValue"
    /\ \E n \in Reach(g, v) \ {v} : g[n].kind = "FuncValue" /\ g[n].tag = g[v].tag

C2_NoExpansionAtCutoff ==
    /\ pc = "return"
    /\ blockRecursion.some
    /\ SelfReferential(graph, root)
    /\ graph[root].tag = blockRecursion.tag
    => NoExpansionAtLevel(result, blockRecursion.tag, blockRecursion.maxDepth)

\* the same without a cache, which the code satisfies
C2_NoExpansionAtCutoffNoCache == ~cache.some => C2_NoExpansionAtCutoff

(***************************************************************************)
(* C3: when the cutoff is not needed (there is none, or stringifying       *)
(* without a cache never reaches maxDepth, in this call and in the earlier *)
(* calls that wrote to the cache), a call with a cache returns the string  *)
(* that the call without a cache returns.                                  *)
(***************************************************************************)
CutoffNeeded(g, v, br) ==
    \E n \in Nodes : stringifyValue(g, v, br, NoCache).counters.cuts[n] > 0

EarlierRoots == IF op = "stack" THEN {Values[i] : i \in 1..Len(items)} ELSE {}

C3_CacheTransparency ==
    /\ pc = "return"
    /\ cache.some
    /\ \A v \in {root} \cup EarlierRoots : ~CutoffNeeded(graph, v, blockRecursion)
    => LET plain == stringifyValue(graph, root, blockRecursion, NoCache)
       IN  plain.pc = "return" /\ result = plain.result

C3_Witness ==
    /\ pc = "return"
    /\ cache.some
    /\ blockRecursion.some
    /\ ~CutoffNeeded(graph, root, blockRecursion)
    /\ \E n \in Nodes : counters.hits[n] > 0 /\ graph[n].kind = "FuncValue"
    /\ result = stringifyValue(graph, root, blockRecursion, NoCache).result

(***************************************************************************)
(* C4, as claimed: in a call with a cache that returns, every composite    *)
(* instance reached by two or more paths has had its frame pushed exactly  *)
(* once and its combinator invoked exactly once, and every other visit of  *)
(* it was a cache hit.                                                     *)
(***************************************************************************)
C4_SharedExactlyOnce ==
    pc = "return" /\ cache.some =>
        \A n \in Nodes :
            ( /\ IsComposite(graph[n])
              /\ Paths(graph, root, n) >= 2
              /\ counters.visits[n] >= 2 )
            => /\ counters.pushes[n] = 1
               /\ counters.fnCalls[n] = 1
               /\ counters.hits[n] = counters.visits[n] - 1

(***************************************************************************)
(* C4, amended: in a call with a cache, for every instance a frame is      *)
(* pushed and the combinator invoked at most once; exactly once when the   *)
(* call returns, the cache held no entry for the composite instance when   *)
(* the call began and some visit of it was not answered by the cutoff      *)
(* placeholder; every visit after the combinator ran is a cache hit.       *)
(***************************************************************************)
C4_SharedAtMostOnce ==
    InCall /\ cache.some =>
        \A n \in Nodes :
            /\ counters.pushes[n] <= 1
            /\ counters.fnCalls[n] <= counters.pushes[n]
            /\ pc = "return" => counters.fnCalls[n] = counters.pushes[n]
            /\ ( /\ pc = "return"
                 /\ IsComposite(graph[n])
                 /\ n \notin DOMAIN cache0.map
                 /\ counters.visits[n] > counters.cuts[n] )
               => counters.pushes[n] = 1
            /\ (Computing /\ state.compute.value = n /\ counters.fnCalls[n] >= 1)
               => ComputeBranch(graph, blockRecursion, M) = "cached"
            /\ counters.visits[n] >= counters.pushes[n] + counters.hits[n] + counters.cuts[n]

C4_Witness ==
    /\ pc = "return"
    /\ cache.some
    /\ \E n \in Nodes :
        /\ IsComposite(graph[n])
        /\ Paths(graph, root, n) >= 2
        /\ counters.pushes[n] = 1
        /\ counters.fnCalls[n] = 1
        /\ counters.hits[n] >= 1

(***************************************************************************)
(* C5: on a graph of known variants, for every cutoff and cache, a call    *)
(* of stringifyValue halts: it never throws, every step of the loop but    *)
(* the last decreases a natural number, the last leaves the loop in a      *)
(* reduce state with an empty frame stack, and the call then returns the   *)
(* string of that reduce state.                                            *)
(***************************************************************************)
\* the steps of the loop that stringifying v takes at most
RECURSIVE Work(_, _)
RECURSIVE SumWork(_, _, _)
SumWork(g, cs, i) == IF i > Len(cs) THEN 0 ELSE Work(g, cs[i].value) + SumWork(g, cs, i + 1)

Work(g, v) ==
    LET cs == [i \in DOMAIN g[v].children |-> [value |-> g[v].children[i]]]
    IN  1 + SumWork(g, cs, 1) + Len(cs)

\* the steps of the loop still to be taken at most, a variant of the loop: the work
\* of the value being computed, and for every frame the work of the children after
\* the one in progress and one reduce step for each child that is not yet collected
RECURSIVE Pending(_, _)
Pending(g, fs) ==
    IF Len(fs) = 0 THEN 0
    ELSE LET f == fs[Len(fs)]
             done == Len(f.stringifiedValues)
         IN  SumWork(g, f.values, done + 2) + (Len(f.values) - done)
             + Pending(g, SubSeq(fs, 1, Len(fs) - 1))

Rank ==
    IF "compute" \in DOMAIN state
    THEN Work(graph, state.compute.value) + Pending(graph, frames)
    ELSE Pending(graph, frames)

HaltedInReduce ==
    pc \in {"post", "return"} =>
        /\ "reduce" \in DOMAIN state
        /\ frames = <<>>
        /\ pc = "return" => result = state.reduce.item

C5_Halts ==
    /\ []HaltedInReduce
    /\ [](KnownVariants(graph, 1) => pc # "error")
    /\ [][KnownVariants(graph, 1) /\ pc = "loop" =>
             /\ Rank' >= 0
             /\ Rank' < Rank \/ (pc' = "post" /\ state' = state /\ frames = <<>>)]_vars
    /\ [][pc = "post" => pc' = "return" /\ state' = state]_vars

C5_Witness ==
    /\ pc = "return"
    /\ KnownVariants(graph, 1)
    /\ blockRecursion.some
    /\ cache.some
    /\ \E n \in Nodes : counters.cuts[n] > 0
    /\ \E n \in Nodes : counters.hits[n] > 0
    /\ result = state.reduce.item

(***************************************************************************)
(* C6: a compute step on a FuncValue with an empty captured environment    *)
(* always reduces to "Fn" + definitionTag + "[]", also when its tag is the *)
(* blocked tag and the depth is maxDepth.                                  *)
(***************************************************************************)
IsEmptyFunc(val) == val.kind = "FuncValue" /\ Len(val.children) = 0

C6_EmptyFuncBrackets ==
    [][Computing /\ IsEmptyFunc(graph[state.compute.value]) =>
          state' = ReduceState(<<"Fn", ToString(graph[state.compute.value].tag), "[", "]">>)]_vars

(***************************************************************************)
(* C7: the depth of the compute item is the number of frames owned by a    *)
(* FuncValue with the blocked tag (0 with no cutoff), and every child      *)
(* recorded in a frame carries the number of such frames up to and         *)
(* including its own.                                                      *)
(***************************************************************************)
C7_DepthCountsBlockedFrames ==
    pc = "loop" =>
        /\ Computing => state.compute.depth = Cardinality(BlockedFrames)
        /\ \A i \in DOMAIN frames : \A j \in DOMAIN frames[i].values :
              frames[i].values[j].depth = Cardinality({k \in BlockedFrames : k <= i})

C7_Witness ==
    /\ Computing
    /\ state.compute.depth = 2
    /\ Len(frames) = 3
    /\ Cardinality(BlockedFrames) = 2

(***************************************************************************)
(* C8: a compute step on a value the cache holds a string for reduces to   *)
(* exactly that string, pushes no frame and visits no child, whatever the  *)
(* variant, the depth and the cutoff.                                      *)
(***************************************************************************)
C8_CacheHitFirst ==
    [][Computing /\ cache.some /\ state.compute.value \in DOMAIN cache.map =>
          /\ state' = ReduceState(cache.map[state.compute.value])
          /\ frames' = frames
          /\ cache' = cache
          /\ pc' = "loop"
          /\ counters'.pushes = counters.pushes]_vars

\* a cache hit on a FuncValue with the blocked tag at depth maxDepth
C8_Witness ==
    /\ pc = "loop"
    /\ "reduce" \in DOMAIN state
    /\ blockRecursion.some
    /\ Cardinality(BlockedFrames) = blockRecursion.maxDepth
    /\ \E n \in Nodes :
        /\ counters.hits[n] >= 1
        /\ graph[n].kind = "FuncValue"
        /\ graph[n].tag = blockRecursion.tag
        /\ frames # <<>>
        /\ LET f == frames[Len(frames)]
           IN  f.values[Len(f.stringifiedValues) + 1].value = n
        /\ state.reduce.item = cache.map[n]

(***************************************************************************)
(* C9, as claimed: stringifyStackValues maps the bindings in order against *)
(* one cache; when two bindings alias one composite instance, its          *)
(* combinator runs once in the whole call and the second binding's text is *)
(* the memoized string of the first.                                       *)
(***************************************************************************)
ItemText(item) == SubSeq(item, 3, Len(item))

Aliases ==
    {p \in (DOMAIN Values) \X (DOMAIN Values) :
        p[1] < p[2] /\ Values[p[1]] = Values[p[2]] /\ IsComposite(graph[Values[p[1]]])}

C9_AliasCombinedOnce ==
    pc = "stackReturn" /\ cache.some =>
        \A p \in Aliases :
            /\ fnTotal[Values[p[1]]] = 1
            /\ CacheGet(cache, Values[p[1]]) = [defined |-> TRUE, str |-> ItemText(items[p[1]])]
            /\ ItemText(items[p[2]]) = ItemText(items[p[1]])

(***************************************************************************)
(* C9, amended: the bindings are stringified one after another in their    *)
(* order against one cache and cutoff; when two bindings alias one         *)
(* composite instance, the second call is a single cache hit returning the *)
(* string the first call memoized and the combinator runs once in the      *)
(* whole call, except when the instance is a FuncValue with the blocked    *)
(* tag and maxDepth is 0: then both bindings get the placeholder and the   *)
(* combinator never runs.                                                  *)
(***************************************************************************)
CutAtRoot(v) ==
    /\ blockRecursion.some
    /\ graph[v].kind = "FuncValue"
    /\ graph[v].tag = blockRecursion.tag
    /\ blockRecursion.maxDepth = 0

C9_AliasMemoized ==
    op = "stack" /\ cache.some =>
        /\ InCall => root = Values[Len(items) + 1]
        /\ \A i \in DOMAIN items : items[i][1] = graph[1].ids[i]
        /\ pc = "return" =>
              \A p \in Aliases :
                  (p[2] = Len(items) + 1 /\ ~CutAtRoot(root)) =>
                      /\ result = ItemText(items[p[1]])
                      /\ result = cache.map[root]
                      /\ counters.hits[root] = 1
                      /\ counters.visits = [ZeroCount EXCEPT ![root] = 1]
                      /\ counters.fnCalls = ZeroCount
        /\ pc = "stackReturn" =>
              /\ Len(items) = Len(Values)
              /\ \A p \in Aliases :
                    /\ fnTotal[Values[p[1]]] = IF CutAtRoot(Values[p[1]]) THEN 0 ELSE 1
                    /\ ItemText(items[p[2]]) = ItemText(items[p[1]])

C9_Witness ==
    /\ pc = "stackReturn"
    /\ cache.some
    /\ blockRecursion.some
    /\ \E p \in Aliases :
        /\ fnTotal[Values[p[1]]] = 1
        /\ graph[Values[p[1]]].kind = "FuncValue"
        /\ ItemText(items[p[2]]) = cache.map[Values[p[1]]]

(***************************************************************************)
(* C10: once a compute step has been taken on a value of no known variant, *)
(* the call has thrown "unhandled value type": it returns no string, and   *)
(* neither does stringifyStackValues.                                      *)
(***************************************************************************)
C10_UnhandledThrows ==
    \A n \in Nodes :
        graph[n].kind = "OtherValue" /\ counters.visits[n] > 0 =>
            /\ pc = "error"
            /\ error = "unhandled value type"
            /\ result = <<>>
            /\ stackResult = <<>>
            /\ counters.visits[n] = 1

C10_Witness ==
    /\ pc = "error"
    /\ error = "unhandled value type"
    /\ cache.some
    /\ Len(frames) >= 2
    /\ \E n \in Nodes : graph[n].kind = "OtherValue" /\ counters.visits[n] = 1

(***************************************************************************)
(* C12: on an acyclic graph the owners of the frames are pairwise distinct *)
(* instances that form one path from the root of the call to the value     *)
(* being computed: the first frame is the root's, each further frame is    *)
(* owned by the child its predecessor is waiting for, and the value being  *)
(* computed is the child the top frame is waiting for.  Hence there are    *)
(* never more frames than composite instances reachable from the root.     *)
(***************************************************************************)
CompositeInstances(g, v) == {n \in Reach(g, v) : IsComposite(g[n])}

\* the child a frame is waiting for
Awaited(f) == f.values[Len(f.stringifiedValues) + 1].value

C12_FramesFormPath ==
    pc = "loop" =>
        /\ \A i, j \in DOMAIN frames : i # j => frames[i].owner # frames[j].owner
        /\ frames # <<>> => frames[1].owner = root
        /\ \A i \in DOMAIN frames :
              /\ [j \in DOMAIN frames[i].values |-> frames[i].values[j].value]
                     = graph[frames[i].owner].children
              /\ i < Len(frames) => frames[i + 1].owner = Awaited(frames[i])
        /\ Computing /\ frames # <<>> => state.compute.value = Awaited(frames[Len(frames)])
        /\ Len(frames) <= Cardinality(CompositeInstances(graph, root))

C12_Witness ==
    /\ Computing
    /\ Len(frames) = 3
    /\ Cardinality(CompositeInstances(graph, root)) = 3
    /\ blockRecursion.some
    /\ cache.some

(***************************************************************************)
(* C13: with a cutoff (t, k) there are never more than k frames owned by   *)
(* FuncValues with tag t, and the depth of every compute item, the current *)
(* one and those recorded in the frames, lies in 0..k.                     *)
(***************************************************************************)
C13_DepthBounded ==
    pc = "loop" /\ blockRecursion.some =>
        /\ Cardinality(BlockedFrames) <= blockRecursion.maxDepth
        /\ Computing => state.compute.depth \in 0..blockRecursion.maxDepth
        /\ \A i \in DOMAIN frames : \A j \in DOMAIN frames[i].values :
              frames[i].values[j].depth \in 0..blockRecursion.maxDepth

\* the bound is met: k frames of tag t, and a further closure of tag t is about to be cut
C13_Witness ==
    /\ Computing
    /\ blockRecursion.some
    /\ blockRecursion.maxDepth = 2
    /\ Cardinality(BlockedFrames) = 2
    /\ graph[state.compute.value].kind = "FuncValue"
    /\ graph[state.compute.value].tag = blockRecursion.tag
    /\ Len(graph[state.compute.value].children) > 0
    /\ cache.some

(***************************************************************************)
(* C14: every frame holds fewer collected strings than children, its i-th  *)
(* collected string is the string of its i-th child (what stringifying the *)
(* child's compute item yields against the cache), the value being         *)
(* computed is the compute item of the child the top frame is waiting for, *)
(* and a reduced string is the string of that child.                       *)
(***************************************************************************)
\* the machine started on a recorded compute item
StartAt(item, c) == [StartCall(item.value, c) EXCEPT !.state = [compute |-> item]]

ChildString(item) == Run(graph, blockRecursion, StartAt(item, cache)).result

C14_FramesCollectInOrder ==
    pc = "loop" =>
        /\ \A i \in DOMAIN frames :
              /\ Len(frames[i].stringifiedValues) < Len(frames[i].values)
              /\ \A j \in DOMAIN frames[i].stringifiedValues :
                    frames[i].stringifiedValues[j] = ChildString(frames[i].values[j])
        /\ frames # <<>> =>
              LET top == frames[Len(frames)]
                  next == top.values[Len(top.stringifiedValues) + 1]
              IN  IF Computing THEN state.compute = next
                  ELSE state.reduce.item = ChildString(next)

C14_Witness ==
    /\ Computing
    /\ frames # <<>>
    /\ blockRecursion.some
    /\ cache.some
    /\ LET top == frames[Len(frames)]
       IN  /\ Len(top.values) = 3
           /\ Len(top.stringifiedValues) = 2
           /\ top.stringifiedValues[1] # top.stringifiedValues[2]
           /\ state.compute = top.values[3]

(***************************************************************************)
(* C15: with a cutoff and an initially empty cache, stringifyValue returns *)
(* the string it returns without a cache.                                  *)
(***************************************************************************)
C15_CacheTransparentUnderCutoff ==
    pc = "return" /\ op = "value" /\ blockRecursion.some /\ cache0 = EmptyCache =>
        result = stringifyValue(graph, root, blockRecursion, NoCache).result

(***************************************************************************)
(* C16: a step changes the cache only by completing a frame, and then adds *)
(* one entry: the combined string under the frame's owner, a composite     *)
(* instance that had no entry.  So every key is a MaybeErrorValue, a       *)
(* BranchedValue or a FuncValue with bindings, no entry is a placeholder   *)
(* "Fn" + tag, and the entries the call began with are still there.        *)
(***************************************************************************)
C16_CacheOnlyGainsCompletedFrames ==
    /\ [](\A n \in DOMAIN cache.map :
             /\ IsComposite(graph[n])
             /\ cache.map[n] # <<"Fn">> \o TagText(graph[n].tag)
             /\ Len(cache.map[n]) > 2)
    /\ [](\A n \in DOMAIN cache0.map : n \in DOMAIN cache.map /\ cache.map[n] = cache0.map[n])
    /\ [][cache' # cache =>
             /\ pc = "loop"
             /\ "reduce" \in DOMAIN state
             /\ frames # <<>>
             /\ LET top == frames[Len(frames)]
                IN  /\ Len(top.stringifiedValues) + 1 = Len(top.values)
                    /\ IsComposite(graph[top.owner])
                    /\ top.owner \notin DOMAIN cache.map
                    /\ cache' = [cache EXCEPT !.map = (top.owner :> state'.reduce.item) @@ @]]_vars

\* a call that began with entries has added one and passed a leaf, an empty closure
\* or a placeholder by
C16_Witness ==
    /\ pc = "return"
    /\ DOMAIN cache0.map # {}
    /\ DOMAIN cache.map # DOMAIN cache0.map
    /\ \E n \in Nodes : counters.visits[n] > 0 /\ ~IsComposite(graph[n])
    /\ \E n \in Nodes : counters.cuts[n] > 0

(***************************************************************************)
(* C18: for a FuncValue f whose tag is not the blocked one (or with no     *)
(* cutoff), "Fn" + tag + stringifyStackValues(f.stack.values) is what      *)
(* stringifyValue(f) returns, both started with an empty cache or both     *)
(* with none.                                                              *)
(***************************************************************************)
C18_FuncIsTagPlusStack ==
    pc = "stackReturn" /\ (blockRecursion.some => graph[1].tag # blockRecursion.tag) =>
        <<"Fn">> \o TagText(graph[1].tag) \o stackResult
            = stringifyValue(graph, 1, blockRecursion,
                             IF cache.some THEN EmptyCache ELSE NoCache).result

C18_Witness ==
    /\ pc = "stackReturn"
    /\ blockRecursion.some
    /\ graph[1].tag # blockRecursion.tag
    /\ cache.some
    /\ Len(Values) = 2
    /\ \E n \in Nodes : fnTotal[n] > 0 /\ graph[n].kind = "FuncValue"
                        /\ graph[n].tag = blockRecursion.tag

(***************************************************************************)
(* C19: the loop is left only from a reduce state with no frames, so after *)
(* the loop the state is a reduce state and "unexpected" is never thrown.  *)
(***************************************************************************)
C19_GuardUnreachable ==
    /\ [](error # "unexpected")
    /\ [](pc = "post" => "reduce" \in DOMAIN state /\ frames = <<>>)
    /\ [][pc = "loop" /\ pc' # "loop" /\ pc' # "error" =>
             /\ "reduce" \in DOMAIN state
             /\ frames = <<>>
             /\ pc' = "post"
             /\ state' = state]_vars
    /\ [][pc = "post" => pc' = "return" /\ result' = state.reduce.item]_vars

C19_Witness ==
    /\ pc = "post"
    /\ "reduce" \in DOMAIN state
    /\ frames = <<>>
    /\ counters.pushes[root] = 1
    /\ \E n \in Nodes : counters.cuts[n] > 0

RECURSIVE WorkAt(_, _, _)
RECURSIVE SumWorkAt(_, _, _, _)
SumWorkAt(g, br, cs, i) ==
    IF i > Len(cs) THEN 0 ELSE WorkAt(g, br, cs[i]) + SumWorkAt(g, br, cs, i + 1)

WorkAt(g, br, item) ==
    LET val == g[item.value]
        blocked == br.some /\ val.kind = "FuncValue" /\ val.tag = br.tag
        cs == [i \in DOMAIN val.children |->
                  [value |-> val.children[i],
                   depth |-> IF blocked THEN item.depth + 1 ELSE item.depth]]
    IN  IF blocked /\ item.depth >= br.maxDepth THEN 1
        ELSE 1 + SumWorkAt(g, br, cs, 1) + Len(cs)

RECURSIVE PendingAt(_, _, _)
PendingAt(g, br, fs) ==
    IF Len(fs) = 0 THEN 0
    ELSE LET f == fs[Len(fs)]
             done == Len(f.stringifiedValues)
         IN  SumWorkAt(g, br, f.values, done + 2) + (Len(f.values) - done)
             + PendingAt(g, br, SubSeq(fs, 1, Len(fs) - 1))

\* the variant of the loop on a graph whose cycles the cutoff interrupts
CyclicRank ==
    IF "compute" \in DOMAIN state
    THEN WorkAt(graph, blockRecursion, state.compute) + PendingAt(graph, blockRecursion, frames)
    ELSE PendingAt(graph, blockRecursion, frames)

\* the iterations taken and those still to be taken never exceed the work of the root,
\* so the loop is left after at most that many iterations, and the call then returns
C17_CutoffBreaksCycles ==
    BlockedOnEveryCycle =>
        LET bound == WorkAt(graph, blockRecursion, [value |-> 1, depth |-> 0])
        IN  /\ pc # "error"
            /\ pc = "loop" => CyclicRank >= 0 /\ steps + CyclicRank <= bound
            /\ pc \in {"post", "return"} =>
                  /\ steps <= bound + 2
                  /\ "reduce" \in DOMAIN state
                  /\ frames = <<>>
            /\ pc = "return" => result = state.reduce.item

C17_Witness ==
    /\ pc = "return"
    /\ BlockedOnEveryCycle
    /\ \E n \in Nodes : OnCycle(graph, n, Nodes) /\ counters.cuts[n] > 0
    /\ \E n \in Nodes : OnCycle(graph, n, Nodes) /\ counters.hits[n] > 0
    /\ blockRecursion.maxDepth = MaxDepth

====
